---- MODULE Spec2Model ----
(***************************************************************************)
(* Model of the Symphonic Prompting retrieval pipeline:                    *)
(*   - app/chunking.py : paragraph extraction and the window chunker       *)
(*   - app/search.py   : ArtifactStore, OptionalReranker, search           *)
(*   - app/api/server.py : search_endpoint                                 *)
(* The specifications share the variables: ChunkSpec runs build_chunks on  *)
(* a bounded set of page files, Spec runs search calls against a bounded   *)
(* set of artifact directories, StoreSpec and RerankerSpec run threads     *)
(* that call the accessors of the store and the methods of the reranker    *)
(* step by step, ApiSpec runs the HTTP endpoint, LargeSpec runs search on  *)
(* indexes around the over-fetch size, and CandidateSpec calls             *)
(* _make_candidates and rerank on their own over bounded inputs.           *)
(***************************************************************************)
EXTENDS Integers, Sequences, FiniteSets, TLC

VARIABLES
    \* ---- chunking.py ----
    pages,          \* the records of the pages JSONL (input of build_chunks)
    target_chars,   \* build_chunks argument
    min_chars,      \* build_chunks argument
    overlap_ratio,  \* build_chunks argument, a rational <<num, den>>
    paragraphs,     \* result of _explode_paragraphs
    start_idx,      \* _yield_chunks local (0-based, as in the source)
    chunk_index,    \* _yield_chunks local
    chunks,         \* the chunks yielded so far, in emission order
    windows,        \* per yielded chunk: the window _collect_window returned
    cpc,            \* position of build_chunks: "load", "yield", "done"
    \* ---- search.py ----
    disk,           \* the artifact files: existence and contents
    store,          \* ARTIFACT_STORE: its cached fields
    reranker,       \* RERANKER: _model and _load_failure
    last,           \* the latest call (of search, or of a function called
                    \* on its own) and its outcome
    pinned,         \* an earlier search call and its outcome
    response,       \* the HTTP response of the latest search_endpoint call
    \* ---- threads on the store and the reranker ----
    threads,        \* per thread: the call it is in and its position
    store_lock,     \* ArtifactStore._lock: its holder
    reranker_lock,  \* OptionalReranker._lock: its holder
    loads           \* per resource: how many times it was loaded

chunkVars == <<pages, target_chars, min_chars, overlap_ratio, paragraphs,
               start_idx, chunk_index, chunks, windows, cpc>>
searchVars == <<disk, store, reranker, last, pinned, response>>
concVars == <<threads, store_lock, reranker_lock, loads>>
vars == <<pages, target_chars, min_chars, overlap_ratio, paragraphs,
          start_idx, chunk_index, chunks, windows, cpc,
          disk, store, reranker, last, pinned, response,
          threads, store_lock, reranker_lock, loads>>

\* An Optional field: None, or Some(x) holding x.
None == <<>>
Some(x) == <<x>>
Get(opt) == opt[1]

\* No exception raised.
OK == "ok"

(***************************************************************************)
(* Bounds of the model.                                                    *)
(***************************************************************************)
MaxPages == 3
MaxTarget == 8
MaxMin == 3

(***************************************************************************)
(* Text: a string is a sequence of one-character strings.                  *)
(***************************************************************************)
NL == "\n"
SEP == <<NL, NL>>

IsSpace(c) == c \in {" ", NL}

RECURSIVE LStrip(_)
LStrip(s) ==
    IF s = <<>> THEN <<>>
    ELSE IF IsSpace(Head(s)) THEN LStrip(Tail(s)) ELSE s

RECURSIVE RStrip(_)
RStrip(s) ==
    IF s = <<>> THEN <<>>
    ELSE IF IsSpace(s[Len(s)]) THEN RStrip(SubSeq(s, 1, Len(s) - 1)) ELSE s

\* str.strip()
Strip(s) == RStrip(LStrip(s))

\* str.split("\n\n"): left-to-right, non-overlapping; cur is the piece being
\* read, acc the pieces closed so far.
RECURSIVE SplitFrom(_, _, _, _)
SplitFrom(s, i, cur, acc) ==
    IF i > Len(s) THEN Append(acc, cur)
    ELSE IF i < Len(s) /\ s[i] = NL /\ s[i + 1] = NL
         THEN SplitFrom(s, i + 2, <<>>, Append(acc, cur))
         ELSE SplitFrom(s, i + 1, Append(cur, s[i]), acc)

Split(s) == SplitFrom(s, 1, <<>>, <<>>)

\* "\n\n".join(texts)
RECURSIVE Join(_)
Join(texts) ==
    IF texts = <<>> THEN <<>>
    ELSE IF Len(texts) = 1 THEN texts[1]
    ELSE texts[1] \o SEP \o Join(Tail(texts))

NonBlank(s) == Strip(s) # <<>>

RECURSIVE KeepNonBlank(_)
KeepNonBlank(seq) ==
    IF seq = <<>> THEN <<>>
    ELSE (IF NonBlank(Head(seq)) THEN <<Head(seq)>> ELSE <<>>) \o KeepNonBlank(Tail(seq))

\* [part.strip() for part in text.split("\n\n") if part.strip()]
Parts(text) ==
    LET kept == KeepNonBlank(Split(text))
    IN  [k \in 1..Len(kept) |-> Strip(kept[k])]

(***************************************************************************)
(* _explode_paragraphs                                                     *)
(***************************************************************************)
Paragraph(page, text, start, end) ==
    [page |-> page, text |-> text, start |-> start, end |-> end]

\* Variant: a paragraph's end is the offset of its last character.
RECURSIVE ExplodePartsEndInclusive(_, _, _, _, _)
ExplodePartsEndInclusive(parts, k, page_number, cursor, acc) ==
    IF k >= Len(parts) THEN [paragraphs |-> acc, cursor |-> cursor]
    ELSE LET part == parts[k + 1]
             start == cursor
             end == start + Len(part)
             after == IF k # Len(parts) - 1 THEN end + 2 ELSE end
         IN  ExplodePartsEndInclusive(parts, k + 1, page_number, after,
                          Append(acc, Paragraph(page_number, part, start, end - 1)))

\* The inner loop over the parts of one page, from part_index k (0-based).
RECURSIVE ExplodeParts(_, _, _, _, _)
ExplodeParts(parts, k, page_number, cursor, acc) ==
    IF k >= Len(parts) THEN [paragraphs |-> acc, cursor |-> cursor]
    ELSE LET part == parts[k + 1]
             start == cursor
             end == start + Len(part)
             after == IF k # Len(parts) - 1 THEN end + 2 ELSE end
         IN  ExplodeParts(parts, k + 1, page_number, after,
                          Append(acc, Paragraph(page_number, part, start, end)))

\* The outer loop over the pages, from idx (0-based).
RECURSIVE ExplodePages(_, _, _, _)
ExplodePages(pgs, idx, cursor, acc) ==
    IF idx >= Len(pgs) THEN acc
    ELSE LET record == pgs[idx + 1]
             last_page_index == Len(pgs) - 1
         IN  IF Strip(record.text) = <<>>
             THEN ExplodePages(pgs, idx + 1,
                               IF idx # last_page_index THEN cursor + 2 ELSE cursor,
                               acc)
             ELSE LET r == ExplodeParts(Parts(record.text), 0, record.page, cursor, acc)
                  IN  ExplodePages(pgs, idx + 1,
                                   IF idx # last_page_index THEN r.cursor + 2 ELSE r.cursor,
                                   r.paragraphs)

_explode_paragraphs(pgs) == ExplodePages(pgs, 0, 0, <<>>)

(***************************************************************************)
(* _collect_window                                                         *)
(***************************************************************************)
Min(a, b) == IF a <= b THEN a ELSE b
Max(a, b) == IF a >= b THEN a ELSE b

\* seq[i] of a Python list: 0-based, a negative index counts from the end.
At(seq, i) == IF i >= 0 THEN seq[i + 1] ELSE seq[Len(seq) + i + 1]

\* The while loop of _collect_window, entered with idx, current, char_count.
RECURSIVE CollectLoop(_, _, _, _, _, _)
CollectLoop(paras, idx, current, char_count, target, minc) ==
    IF idx >= Len(paras)
    THEN [window |-> current, char_count |-> char_count, idx |-> idx]
    ELSE LET para == At(paras, idx)
             addition == Len(para.text) + (IF current # <<>> THEN 2 ELSE 0)
             anticipated == char_count + addition
         IN  IF current # <<>> /\ anticipated > target /\ char_count >= minc
             THEN [window |-> current, char_count |-> char_count, idx |-> idx]
             ELSE IF anticipated >= target
                  THEN [window |-> Append(current, para),
                        char_count |-> anticipated, idx |-> idx + 1]
                  ELSE CollectLoop(paras, idx + 1, Append(current, para),
                                   anticipated, target, minc)

\* Variant: the break on reaching target_chars comes before idx += 1.
RECURSIVE CollectLoopBreakFirst(_, _, _, _, _, _)
CollectLoopBreakFirst(paras, idx, current, char_count, target, minc) ==
    IF idx >= Len(paras)
    THEN [window |-> current, char_count |-> char_count, idx |-> idx]
    ELSE LET para == At(paras, idx)
             addition == Len(para.text) + (IF current # <<>> THEN 2 ELSE 0)
             anticipated == char_count + addition
         IN  IF current # <<>> /\ anticipated > target /\ char_count >= minc
             THEN [window |-> current, char_count |-> char_count, idx |-> idx]
             ELSE IF anticipated >= target
                  THEN [window |-> Append(current, para),
                        char_count |-> anticipated, idx |-> idx]
                  ELSE CollectLoopBreakFirst(paras, idx + 1, Append(current, para),
                                             anticipated, target, minc)

CollectWindowBreakFirst(paras, start, target, minc) ==
    CollectLoopBreakFirst(paras, start, <<>>, 0, target, minc)

\* Variant: the window stops as soon as min_chars is met ("or" for "and").
RECURSIVE CollectLoopFloorStops(_, _, _, _, _, _)
CollectLoopFloorStops(paras, idx, current, char_count, target, minc) ==
    IF idx >= Len(paras)
    THEN [window |-> current, char_count |-> char_count, idx |-> idx]
    ELSE LET para == At(paras, idx)
             addition == Len(para.text) + (IF current # <<>> THEN 2 ELSE 0)
             anticipated == char_count + addition
         IN  IF current # <<>> /\ (anticipated > target \/ char_count >= minc)
             THEN [window |-> current, char_count |-> char_count, idx |-> idx]
             ELSE IF anticipated >= target
                  THEN [window |-> Append(current, para),
                        char_count |-> anticipated, idx |-> idx + 1]
                  ELSE CollectLoopFloorStops(paras, idx + 1, Append(current, para),
                                             anticipated, target, minc)

CollectWindowFloorStops(paras, start, target, minc) ==
    CollectLoopFloorStops(paras, start, <<>>, 0, target, minc)

_collect_window(paras, start, target, minc) ==
    LET r == CollectLoop(paras, start, <<>>, 0, target, minc)
    IN  IF r.window = <<>>
        THEN [window |-> <<At(paras, start)>>,
              char_count |-> Len(At(paras, start).text),
              idx |-> Min(start + 1, Len(paras))]
        ELSE r

(***************************************************************************)
(* _advance_start                                                          *)
(***************************************************************************)
\* int(char_count * overlap_ratio) for the rational ratio = <<num, den>>,
\* den > 0: int() truncates toward zero.
OverlapChars(char_count, ratio) ==
    LET x == char_count * ratio[1]
    IN  IF x >= 0 THEN x \div ratio[2] ELSE -((-x) \div ratio[2])

\* while next_start < end_idx and paragraphs[next_start].end <= overlap_limit
RECURSIVE AdvanceWalk(_, _, _, _)
AdvanceWalk(paras, next_start, end_idx, overlap_limit) ==
    IF next_start < end_idx /\ At(paras, next_start).end <= overlap_limit
    THEN AdvanceWalk(paras, next_start + 1, end_idx, overlap_limit)
    ELSE next_start

\* Variant: the walk's result is returned without the forced fallback.
AdvanceStartNoFallback(paras, start, end_idx, char_count, ratio) ==
    IF end_idx >= Len(paras) THEN end_idx
    ELSE LET overlap_chars == OverlapChars(char_count, ratio)
         IN  IF overlap_chars <= 0 THEN end_idx
             ELSE AdvanceWalk(paras, start, end_idx,
                              At(paras, end_idx - 1).end - overlap_chars)

\* Variant: without overlap the next chunk starts one paragraph after the
\* window's end.
AdvanceStartSkipsOne(paras, start, end_idx, char_count, ratio) ==
    IF end_idx >= Len(paras) THEN end_idx
    ELSE LET overlap_chars == OverlapChars(char_count, ratio)
         IN  IF overlap_chars <= 0 THEN end_idx + 1
             ELSE LET overlap_limit == At(paras, end_idx - 1).end - overlap_chars
                      next_start == AdvanceWalk(paras, start, end_idx, overlap_limit)
                  IN  IF next_start > start THEN next_start ELSE end_idx

\* Variant: the walk stops at the limit itself ("<" for "<=").
RECURSIVE AdvanceWalkStrict(_, _, _, _)
AdvanceWalkStrict(paras, next_start, end_idx, overlap_limit) ==
    IF next_start < end_idx /\ At(paras, next_start).end < overlap_limit
    THEN AdvanceWalkStrict(paras, next_start + 1, end_idx, overlap_limit)
    ELSE next_start

AdvanceStartStrict(paras, start, end_idx, char_count, ratio) ==
    IF end_idx >= Len(paras) THEN end_idx
    ELSE LET overlap_chars == OverlapChars(char_count, ratio)
         IN  IF overlap_chars <= 0 THEN end_idx
             ELSE LET overlap_limit == At(paras, end_idx - 1).end - overlap_chars
                      next_start == AdvanceWalkStrict(paras, start, end_idx, overlap_limit)
                  IN  IF next_start > start THEN next_start ELSE end_idx

_advance_start(paras, start, end_idx, char_count, ratio) ==
    IF end_idx >= Len(paras) THEN end_idx
    ELSE LET overlap_chars == OverlapChars(char_count, ratio)
         IN  IF overlap_chars <= 0 THEN end_idx
             ELSE LET overlap_limit == At(paras, end_idx - 1).end - overlap_chars
                      next_start == AdvanceWalk(paras, start, end_idx, overlap_limit)
                  IN  IF next_start > start THEN next_start ELSE end_idx

(***************************************************************************)
(* Chunk ids: f"sym-{chunk_index:06d}"                                     *)
(***************************************************************************)
RECURSIVE Digits(_)
Digits(n) == IF n < 10 THEN <<n>> ELSE Append(Digits(n \div 10), n % 10)

ZeroPad(ds, width) ==
    IF Len(ds) >= width THEN ds ELSE [i \in 1..(width - Len(ds)) |-> 0] \o ds

\* Variant: the index is incremented before it is formatted.
FormatChunkIdFromOne(n) == [prefix |-> "sym-", digits |-> ZeroPad(Digits(n + 1), 6)]

FormatChunkId(n) == [prefix |-> "sym-", digits |-> ZeroPad(Digits(n), 6)]

\* The integer a digit string denotes (the inverse of the formatting).
RECURSIVE ParseDigits(_)
ParseDigits(ds) ==
    IF ds = <<>> THEN 0 ELSE 10 * ParseDigits(SubSeq(ds, 1, Len(ds) - 1)) + ds[Len(ds)]

(***************************************************************************)
(* build_chunks and the loop of _yield_chunks                              *)
(***************************************************************************)
WindowTexts(window) == [k \in 1..Len(window) |-> window[k].text]

\* The Chunk that _yield_chunks builds from a window.
MakeChunk(window, index) ==
    [id |-> FormatChunkId(index),
     text |-> Join(WindowTexts(window)),
     page_start |-> window[1].page,
     page_end |-> window[Len(window)].page,
     start_char |-> window[1].start,
     end_char |-> window[Len(window)].end]

\* build_chunks up to the first iteration of the generator.
BuildChunks ==
    /\ cpc = "load"
    /\ paragraphs' = _explode_paragraphs(pages)
    /\ cpc' = IF paragraphs' = <<>> THEN "done" ELSE "yield"
    /\ UNCHANGED <<pages, target_chars, min_chars, overlap_ratio, start_idx,
                   chunk_index, chunks, windows>>
    /\ UNCHANGED searchVars
    /\ UNCHANGED concVars

\* One iteration of the while loop of _yield_chunks.
YieldChunk ==
    /\ cpc = "yield"
    /\ start_idx < Len(paragraphs)
    /\ LET w == _collect_window(paragraphs, start_idx, target_chars, min_chars)
           next_start == _advance_start(paragraphs, start_idx, w.idx,
                                        w.char_count, overlap_ratio)
       IN  /\ chunks' = Append(chunks, MakeChunk(w.window, chunk_index))
           /\ windows' = Append(windows, [start |-> start_idx, end |-> w.idx,
                                          char_count |-> w.char_count,
                                          size |-> Len(w.window)])
           /\ chunk_index' = chunk_index + 1
           /\ IF w.idx >= Len(paragraphs)
              THEN /\ cpc' = "done"
                   /\ UNCHANGED start_idx
              ELSE /\ start_idx' = next_start
                   /\ cpc' = IF next_start < Len(paragraphs) THEN "yield" ELSE "done"
    /\ UNCHANGED <<pages, target_chars, min_chars, overlap_ratio, paragraphs>>
    /\ UNCHANGED searchVars
    /\ UNCHANGED concVars

(***************************************************************************)
(* The inputs of build_chunks.                                             *)
(***************************************************************************)
\* Page texts: a blank page, one short paragraph, two paragraphs around a
\* blank part, and one longer paragraph with surrounding whitespace.
PageTexts ==
    { <<>>,
      <<"a">>,
      <<"a", NL, NL, " ", NL, NL, "a", "b">>,
      <<" ", "b", "a", "b", NL>> }

\* build_page_records numbers the pages from 1.
PageFiles ==
    UNION { { [i \in 1..n |-> [page |-> i, text |-> t[i]]] : t \in [1..n -> PageTexts] }
            : n \in 0..MaxPages }

\* overlap_ratio as <<numerator, denominator>>: 0, 1/2, 3/2 and -1/2 (all
\* exact as floats, so the product char_count * overlap_ratio is exact).
Ratios == { <<0, 1>>, <<1, 2>>, <<3, 2>>, <<-1, 2>> }

SearchIdle ==
    /\ disk = None
    /\ store = None
    /\ reranker = None
    /\ last = None
    /\ pinned = None
    /\ response = None

\* No thread runs.
ConcIdle ==
    /\ threads = None
    /\ store_lock = None
    /\ reranker_lock = None
    /\ loads = None

ChunkInit ==
    /\ pages \in PageFiles
    /\ target_chars \in 0..MaxTarget
    /\ min_chars \in 0..MaxMin
    /\ overlap_ratio \in Ratios
    /\ paragraphs = <<>>
    /\ start_idx = 0
    /\ chunk_index = 0
    /\ chunks = <<>>
    /\ windows = <<>>
    /\ cpc = "load"
    /\ SearchIdle
    /\ ConcIdle

ChunkNext == BuildChunks \/ YieldChunk

ChunkSpec == ChunkInit /\ [][ChunkNext]_vars

(***************************************************************************)
(* search.py: constants and the external pure functions                    *)
(***************************************************************************)
DEFAULT_CANDIDATES == 50
PREVIEW_CHARS == 240

MaxChunks == 3
MaxTopK == 2

Queries == {"q1", "q2"}

\* Chunk texts of the corpora.
Texts == { <<"a">>, <<" ", "a", NL, "b">> }

\* The embedding model, a pure function text -> vector: the vector of a
\* passage ("passage: " + text) and of a query ("query: " + query).
EmbedPassage(text) == IF text = <<"a">> THEN <<2, 0>> ELSE <<1, 1>>

EmbedQuery(query) == IF query = "q1" THEN <<1, 0>> ELSE <<1, 2>>

\* The cross-encoder, a pure function (query, text) -> score.
CrossScore(query, text) ==
    IF text = <<"a">> THEN (IF query = "q1" THEN 0 ELSE 1)
    ELSE (IF query = "q1" THEN 2 ELSE 1)

InnerProduct(u, v) == u[1] * v[1] + u[2] * v[2]

\* seq[:k] of a Python list.
Take(seq, k) ==
    IF k >= 0 THEN SubSeq(seq, 1, Min(k, Len(seq)))
    ELSE SubSeq(seq, 1, Max(Len(seq) + k, 0))

\* list.sort(key=score, reverse=True): stable, equal scores keep their order.
\* x goes into the descending sequence sorted after every entry whose score
\* is not below its own.
InsertDesc(sorted, x) ==
    LET k == Cardinality({ i \in 1..Len(sorted) : sorted[i].score >= x.score })
    IN  SubSeq(sorted, 1, k) \o <<x>> \o SubSeq(sorted, k + 1, Len(sorted))

\* acc holds the first Len(acc) entries of seq, sorted.
RECURSIVE SortDescFrom(_, _)
SortDescFrom(seq, acc) ==
    IF Len(acc) >= Len(seq) THEN acc
    ELSE SortDescFrom(seq, InsertDesc(acc, seq[Len(acc) + 1]))

SortByScoreDesc(seq) == SortDescFrom(seq, <<>>)

\* IndexFlatIP.search(vector, k): the k rows of largest inner product, best
\* first (equal scores by row), padded with label -1 and a score below every
\* inner product when the index holds fewer than k rows.
FaissSearch(index, vector, k) ==
    LET scored == [i \in 1..Len(index.rows) |->
                      [idx |-> i - 1, score |-> InnerProduct(vector, index.rows[i])]]
        best == Take(SortByScoreDesc(scored), k)
    IN  best \o [i \in 1..(k - Len(best)) |-> [idx |-> -1, score |-> -1]]

(***************************************************************************)
(* The artifact files                                                      *)
(***************************************************************************)
\* The chunk records of a corpus, as chunking.py writes them.
Corpus(texts) ==
    [i \in 1..Len(texts) |->
        [id |-> FormatChunkId(i - 1), text |-> texts[i],
         page_start |-> i, page_end |-> i,
         start_char |-> 4 * (i - 1), end_char |-> 4 * (i - 1) + Len(texts[i])]]

\* build_embeddings: ids and index rows follow the chunk file, row i for
\* ids[i]; the index is a flat inner-product index. ids_valid says that the
\* id file holds well-formed JSON.
BuiltDisk(texts) ==
    [chunks_exists |-> TRUE, ids_exists |-> TRUE, faiss_exists |-> TRUE,
     chunks |-> Corpus(texts),
     ids |-> [i \in 1..Len(texts) |-> FormatChunkId(i - 1)],
     ids_valid |-> TRUE,
     index |-> [kind |-> "IndexFlatIP",
                rows |-> [i \in 1..Len(texts) |-> EmbedPassage(texts[i])]]]

Corpora == UNION { [1..n -> Texts] : n \in 0..MaxChunks }

SampleTexts == << <<"a">>, <<" ", "a", NL, "b">> >>

\* Artifact directories: a consistent build of any corpus; a build whose
\* chunk file was rewritten afterwards with its last record gone (stale ids);
\* a directory with a file missing; an index file of another index type.
DiskStates ==
    { BuiltDisk(t) : t \in Corpora }
    \cup { [BuiltDisk(t) EXCEPT !.chunks = SubSeq(@, 1, Len(@) - 1)] :
             t \in Corpora \ {<<>>} }
    \cup { [BuiltDisk(SampleTexts) EXCEPT !.chunks_exists = e[1],
                                          !.ids_exists = e[2],
                                          !.faiss_exists = e[3]] :
             e \in (BOOLEAN \X BOOLEAN \X BOOLEAN) \ {<<TRUE, TRUE, TRUE>>} }
    \cup { [BuiltDisk(SampleTexts) EXCEPT !.index.kind = "IndexIVFFlat"] }

(***************************************************************************)
(* ArtifactStore                                                           *)
(***************************************************************************)
NewStore ==
    [chunk_lookup |-> None, ordered_chunks |-> None, ids |-> None,
     index |-> None, model |-> None]

is_ready(dsk) == dsk.chunks_exists /\ dsk.ids_exists /\ dsk.faiss_exists

\* A loader's outcome: the store after it and the exception raised, if any.
Loaded(st) == [store |-> st, exc |-> OK]
Failed(st, exc) == [store |-> st, exc |-> exc]

\* The dict built line by line: a later record of an id replaces an earlier.
ChunkLookup(lines) ==
    [id \in {lines[i].id : i \in 1..Len(lines)} |->
        lines[CHOOSE i \in 1..Len(lines) :
                 /\ lines[i].id = id
                 /\ \A j \in 1..Len(lines) : lines[j].id = id => j <= i]]

_load_chunks(st, dsk) ==
    IF st.chunk_lookup # None /\ st.ordered_chunks # None THEN st
    ELSE [st EXCEPT !.chunk_lookup = Some(ChunkLookup(dsk.chunks))]

_load_ids(st, dsk) ==
    IF st.ids # None THEN st ELSE [st EXCEPT !.ids = Some(dsk.ids)]

_ensure_index(st, dsk) ==
    IF st.index # None THEN Loaded(st)
    ELSE IF dsk.index.kind # "IndexFlatIP" THEN Failed(st, "TypeError")
    ELSE Loaded([st EXCEPT !.index = Some(dsk.index)])

\* Variant: an id without a record is skipped and the rest is cached.
EnsureOrderedChunksSkipsMissing(st, dsk) ==
    IF st.ordered_chunks # None THEN Loaded(st)
    ELSE IF st.ids = None /\ ~dsk.ids_valid
    THEN Failed(_load_chunks(st, dsk), "JSONDecodeError")
    ELSE LET st2 == _load_ids(_load_chunks(st, dsk), dsk)
             ids == Get(st2.ids)
             chunk_lookup == Get(st2.chunk_lookup)
             found == SelectSeq(ids, LAMBDA id : id \in DOMAIN chunk_lookup)
         IN  Loaded([st2 EXCEPT !.ordered_chunks =
                        Some([i \in 1..Len(found) |-> chunk_lookup[found[i]]])])

\* json.loads in _load_ids raises on an id file that is not well-formed.
_ensure_ordered_chunks(st, dsk) ==
    IF st.ordered_chunks # None THEN Loaded(st)
    ELSE IF st.ids = None /\ ~dsk.ids_valid
    THEN Failed(_load_chunks(st, dsk), "JSONDecodeError")
    ELSE LET st2 == _load_ids(_load_chunks(st, dsk), dsk)
             ids == Get(st2.ids)
             chunk_lookup == Get(st2.chunk_lookup)
         IN  IF \E i \in 1..Len(ids) : ids[i] \notin DOMAIN chunk_lookup
             THEN Failed(st2, "KeyError")
             ELSE Loaded([st2 EXCEPT !.ordered_chunks =
                             Some([i \in 1..Len(ids) |-> chunk_lookup[ids[i]]])])

\* SentenceTransformer(name) loads (ok) or raises.
_ensure_model(st, ok) ==
    IF st.model # None THEN Loaded(st)
    ELSE IF ok THEN Loaded([st EXCEPT !.model = Some("SentenceTransformer")])
    ELSE Failed(st, "Exception")

\* encode_query once the model is loaded.
encode_query(query) == EmbedQuery(query)

(***************************************************************************)
(* OptionalReranker                                                        *)
(***************************************************************************)
NewReranker == [model |-> None, load_failure |-> None]

\* Variant: a failed load is not remembered.
GetModelForgetsFailure(rk, ok) ==
    IF rk.model # None THEN rk
    ELSE IF ok THEN [rk EXCEPT !.model = Some("CrossEncoder")]
    ELSE rk

\* _get_model: the reranker after the call; CrossEncoder(name) loads (ok) or
\* raises.
_get_model(rk, ok) ==
    IF rk.model # None THEN rk
    ELSE IF rk.load_failure # None THEN rk
    ELSE IF ok THEN [rk EXCEPT !.model = Some("CrossEncoder")]
    ELSE [rk EXCEPT !.load_failure = Some("Exception"), !.model = None]

\* Variant: the passthrough returns every candidate.
RerankNoTruncate(query, candidates, top_k, model) ==
    IF model = None THEN candidates
    ELSE Take(SortByScoreDesc(
                  [i \in 1..Len(candidates) |->
                      [candidates[i] EXCEPT !.score = CrossScore(query, candidates[i].text)]]),
              top_k)

\* Variant: the rescored candidates are not sorted.
RerankNoSort(query, candidates, top_k, model) ==
    IF model = None THEN Take(candidates, top_k)
    ELSE Take([i \in 1..Len(candidates) |->
                  [candidates[i] EXCEPT !.score = CrossScore(query, candidates[i].text)]],
              top_k)

\* Variant: the candidates are cut to top_k before they are rescored.
RerankTruncatesFirst(query, candidates, top_k, model) ==
    IF model = None THEN Take(candidates, top_k)
    ELSE SortByScoreDesc(
             [i \in 1..Len(Take(candidates, top_k)) |->
                 [candidates[i] EXCEPT !.score = CrossScore(query, candidates[i].text)]])

\* rerank, given the model _get_model returned.
rerank(query, candidates, top_k, model) ==
    IF model = None THEN Take(candidates, top_k)
    ELSE Take(SortByScoreDesc(
                  [i \in 1..Len(candidates) |->
                      [candidates[i] EXCEPT !.score = CrossScore(query, candidates[i].text)]]),
              top_k)

(***************************************************************************)
(* _make_candidates and search                                             *)
(***************************************************************************)
RECURSIVE ReplaceNL(_)
ReplaceNL(s) ==
    IF s = <<>> THEN <<>>
    ELSE <<IF Head(s) = NL THEN " " ELSE Head(s)>> \o ReplaceNL(Tail(s))

\* chunk.text[:PREVIEW_CHARS].strip().replace("\n", " ")
Preview(text) == ReplaceNL(Strip(Take(text, PREVIEW_CHARS)))

Candidate(chunk, score, rank) ==
    [id |-> chunk.id, score |-> score,
     page_start |-> chunk.page_start, page_end |-> chunk.page_end,
     start_char |-> chunk.start_char, end_char |-> chunk.end_char,
     preview |-> Preview(chunk.text), text |-> chunk.text, rank |-> rank]

\* Variant: the range check rejects position 0 as well.
RECURSIVE MakeCandidatesSkipsZero(_, _, _)
MakeCandidatesSkipsZero(hits, ordered_chunks, rank) ==
    IF rank >= Len(hits) THEN <<>>
    ELSE LET hit == At(hits, rank)
         IN  (IF hit.idx <= 0 \/ hit.idx >= Len(ordered_chunks) THEN <<>>
              ELSE <<Candidate(At(ordered_chunks, hit.idx), hit.score, rank)>>)
             \o MakeCandidatesSkipsZero(hits, ordered_chunks, rank + 1)

\* Variant: the loop ends at the first position out of range ("break" for
\* "continue").
RECURSIVE MakeCandidatesStopsAtSkip(_, _, _)
MakeCandidatesStopsAtSkip(hits, ordered_chunks, rank) ==
    IF rank >= Len(hits) THEN <<>>
    ELSE LET hit == At(hits, rank)
         IN  IF hit.idx < 0 \/ hit.idx >= Len(ordered_chunks) THEN <<>>
             ELSE <<Candidate(At(ordered_chunks, hit.idx), hit.score, rank)>>
                  \o MakeCandidatesStopsAtSkip(hits, ordered_chunks, rank + 1)

\* The loop of _make_candidates from position rank of the hits.
RECURSIVE MakeCandidatesFrom(_, _, _)
MakeCandidatesFrom(hits, ordered_chunks, rank) ==
    IF rank >= Len(hits) THEN <<>>
    ELSE LET hit == At(hits, rank)
         IN  (IF hit.idx < 0 \/ hit.idx >= Len(ordered_chunks) THEN <<>>
              ELSE <<Candidate(At(ordered_chunks, hit.idx), hit.score, rank)>>)
             \o MakeCandidatesFrom(hits, ordered_chunks, rank + 1)

_make_candidates(hits, ordered_chunks) == MakeCandidatesFrom(hits, ordered_chunks, 0)

\* Variant: readiness is checked before top_k.
SearchGuardReadyFirst(top_k, dsk) ==
    IF ~is_ready(dsk) THEN "FileNotFoundError"
    ELSE IF top_k <= 0 THEN "ValueError"
    ELSE OK

\* The two checks search makes before any load: the exception raised, or OK.
SearchGuard(top_k, dsk) ==
    IF top_k <= 0 THEN "ValueError"
    ELSE IF ~is_ready(dsk) THEN "FileNotFoundError"
    ELSE OK

\* Variant: no more neighbours are requested than results.
CandidateCountTopK(top_k, ntotal) == Min(top_k, ntotal)

CandidateCount(top_k, ntotal) == Min(Max(top_k, DEFAULT_CANDIDATES), ntotal)

\* entry["rank"] = rank for each entry, in order.
AssignRanks(candidates) ==
    [i \in 1..Len(candidates) |-> [candidates[i] EXCEPT !.rank = i - 1]]

\* The cleaned entries search returns.
Cleaned(candidates) ==
    [i \in 1..Len(candidates) |->
        [id |-> candidates[i].id, score |-> candidates[i].score,
         page_start |-> candidates[i].page_start, page_end |-> candidates[i].page_end,
         start_char |-> candidates[i].start_char, end_char |-> candidates[i].end_char,
         preview |-> candidates[i].preview]]

Returns(st, rk, list) ==
    [store |-> st, reranker |-> rk, kind |-> "return", exc |-> OK, value |-> list]

\* Variant: a call that raises drops what the store has cached.
RaisesAfterReset(st, rk, exc) ==
    [store |-> NewStore, reranker |-> rk, kind |-> "raise", exc |-> exc, value |-> <<>>]

Raises(st, rk, exc) ==
    [store |-> st, reranker |-> rk, kind |-> "raise", exc |-> exc, value |-> <<>>]

\* One call of search against disk dsk, store st and reranker rk: the store
\* and the reranker after the call and what the call returns or raises.
\* embed_ok and rerank_ok say whether a model construction attempted by the
\* call succeeds.
SearchResult(query, top_k, rr, dsk, st, rk, embed_ok, rerank_ok) ==
    LET guard == SearchGuard(top_k, dsk)
    IN  IF guard # OK THEN Raises(st, rk, guard)
        ELSE
    LET m == _ensure_model(st, embed_ok)
    IN  IF m.exc # OK THEN Raises(m.store, rk, m.exc)
        ELSE
    LET ix == _ensure_index(m.store, dsk)
    IN  IF ix.exc # OK THEN Raises(ix.store, rk, ix.exc)
        ELSE
    LET index == Get(ix.store.index)
        candidate_count == CandidateCount(top_k, Len(index.rows))
    IN  IF candidate_count = 0 THEN Returns(ix.store, rk, <<>>)
        ELSE
    LET hits == FaissSearch(index, encode_query(query), candidate_count)
        oc == _ensure_ordered_chunks(ix.store, dsk)
    IN  IF oc.exc # OK THEN Raises(oc.store, rk, oc.exc)
        ELSE
    LET candidates == _make_candidates(hits, Get(oc.store.ordered_chunks))
    IN  IF candidates = <<>> THEN Returns(oc.store, rk, <<>>)
        ELSE IF rr
        THEN LET rk2 == _get_model(rk, rerank_ok)
             IN  Returns(oc.store, rk2,
                         Cleaned(AssignRanks(rerank(query, candidates, top_k, rk2.model))))
        ELSE Returns(oc.store, rk, Cleaned(AssignRanks(Take(candidates, top_k))))

\* The record of a call: its arguments, its outcome, and whether it changed
\* a cached field of the store or of the reranker.
Call(query, top_k, rr, r, st, rk) ==
    [query |-> query, top_k |-> top_k, rerank |-> rr,
     kind |-> r.kind, exc |-> r.exc, value |-> r.value,
     loaded |-> (r.store # st \/ r.reranker # rk)]

\* No call made yet.
NoCall ==
    [query |-> "", top_k |-> 0, rerank |-> FALSE, kind |-> "none", exc |-> OK,
     value |-> <<>>, loaded |-> FALSE]

\* Whether a model construction succeeds is the environment's choice (the
\* local model cache); there is a choice only where one may be attempted.
ConstructionOutcomes(attempted) == IF attempted THEN BOOLEAN ELSE {TRUE}

\* The remembered earlier call: once, the latest call that returned a list.
Pin ==
    IF pinned = NoCall /\ last.kind = "return" THEN {pinned, last} ELSE {pinned}

\* search(query, top_k, rerank) on the module's store and reranker; retrieve
\* delegates to it unchanged.
search(query, top_k, rr) ==
    /\ \E embed_ok \in ConstructionOutcomes(store.model = None),
          rerank_ok \in ConstructionOutcomes(rr /\ reranker = NewReranker) :
         LET r == SearchResult(query, top_k, rr, disk, store, reranker, embed_ok, rerank_ok)
         IN  /\ store' = r.store
             /\ reranker' = r.reranker
             /\ last' = Call(query, top_k, rr, r, store, reranker)
    /\ pinned' \in Pin
    /\ response' = None
    /\ UNCHANGED disk
    /\ UNCHANGED chunkVars
    /\ UNCHANGED concVars

\* RERANKER.is_available()
is_available ==
    /\ \E rerank_ok \in ConstructionOutcomes(reranker = NewReranker) :
          reranker' = _get_model(reranker, rerank_ok)
    /\ UNCHANGED <<disk, store, last, pinned, response>>
    /\ UNCHANGED chunkVars
    /\ UNCHANGED concVars

ChunkIdle ==
    /\ pages = <<>>
    /\ target_chars = 0
    /\ min_chars = 0
    /\ overlap_ratio = <<0, 1>>
    /\ paragraphs = <<>>
    /\ start_idx = 0
    /\ chunk_index = 0
    /\ chunks = <<>>
    /\ windows = <<>>
    /\ cpc = "idle"

Init ==
    /\ disk \in DiskStates
    /\ store = NewStore
    /\ reranker = NewReranker
    /\ last = NoCall
    /\ pinned = NoCall
    /\ response = None
    /\ ChunkIdle
    /\ ConcIdle

Next ==
    \/ \E query \in Queries, top_k \in -1..MaxTopK, rr \in BOOLEAN :
          search(query, top_k, rr)
    \/ is_available

Spec == Init /\ [][Next]_vars

(***************************************************************************)
(* search on indexes of about DEFAULT_CANDIDATES rows                      *)
(***************************************************************************)
\* A corpus of n chunks, the first short of them with the text "a".
LargeTexts(n, short) ==
    [i \in 1..n |-> IF i <= short THEN <<"a">> ELSE <<" ", "a", NL, "b">>]

\* Builds of no chunk and of one and two chunks more than DEFAULT_CANDIDATES.
LargeDisks ==
    { BuiltDisk(LargeTexts(0, 0)),
      BuiltDisk(LargeTexts(DEFAULT_CANDIDATES + 1, DEFAULT_CANDIDATES - 1)),
      BuiltDisk(LargeTexts(DEFAULT_CANDIDATES + 1, DEFAULT_CANDIDATES)),
      BuiltDisk(LargeTexts(DEFAULT_CANDIDATES + 2, DEFAULT_CANDIDATES)) }

\* top_k below and above DEFAULT_CANDIDATES.
LargeTopKs == {1, DEFAULT_CANDIDATES + 1}

LargeInit ==
    /\ disk \in LargeDisks
    /\ store = NewStore
    /\ reranker = NewReranker
    /\ last = NoCall
    /\ pinned = NoCall
    /\ response = None
    /\ ChunkIdle
    /\ ConcIdle

LargeNext ==
    \E top_k \in LargeTopKs, rr \in BOOLEAN : search("q1", top_k, rr)

LargeSpec == LargeInit /\ [][LargeNext]_vars

(***************************************************************************)
(* _make_candidates and OptionalReranker.rerank called on their own        *)
(***************************************************************************)
MaxHits == 3

\* The stores: ordered chunk lists of zero, two and three chunks, loaded.
CandidateDisks ==
    { BuiltDisk(<<>>), BuiltDisk(SampleTexts), BuiltDisk(SampleTexts \o << <<"a">> >>) }

\* The positions a hit may carry: the padding sentinel -1, the positions of
\* the longest chunk list and one past it.
HitPositions == -1..3

HitScores == {1, 2}

\* The (indices, scores) rows of an index search as a list of pairs, best
\* score first, for any positions.
HitLists ==
    UNION { { h \in [1..n -> [idx : HitPositions, score : HitScores]] :
                \A i \in 1..(n - 1) : h[i].score >= h[i + 1].score }
            : n \in 0..MaxHits }

\* A reranker whose model is loaded, and one whose load failed.
LoadedReranker == [model |-> Some("CrossEncoder"), load_failure |-> None]
FailedReranker == [model |-> None, load_failure |-> Some("Exception")]

\* The candidates list after rerank returned: rerank appends new dicts
\* ({**entry, "score": ...}) to a new list (scored) or copies the list
\* (list(candidates)); it assigns to no entry and to no position of its
\* argument.
CandidatesAfterRerank(candidates) == candidates

\* The record of a call of one of the two functions: the arguments drawn
\* for the run (kind "pending"), then the call made on them.
FnCall(op, kind, query, top_k, hits, candidates, after, value) ==
    [op |-> op, kind |-> kind, exc |-> OK, query |-> query, top_k |-> top_k,
     hits |-> hits, candidates |-> candidates, candidates_after |-> after,
     value |-> value]

\* _make_candidates(indices, scores, store) on a store whose ordered chunks
\* are loaded.
CallMakeCandidates ==
    /\ last.kind = "pending"
    /\ store.ordered_chunks # None
    /\ last' = FnCall("_make_candidates", "return", last.query, last.top_k,
                      last.hits, <<>>, <<>>,
                      _make_candidates(last.hits, Get(store.ordered_chunks)))
    /\ UNCHANGED <<disk, store, reranker, pinned, response>>
    /\ UNCHANGED chunkVars
    /\ UNCHANGED concVars

\* RERANKER.rerank(query, candidates, top_k) as search calls it: on the
\* non-empty list _make_candidates returned, with top_k > 0.
CallRerank ==
    /\ last.op = "_make_candidates"
    /\ last.value # <<>>
    /\ last.top_k > 0
    /\ LET rk == _get_model(reranker, TRUE)
       IN  /\ reranker' = rk
           /\ last' = FnCall("rerank", "return", last.query, last.top_k,
                             last.hits, last.value,
                             CandidatesAfterRerank(last.value),
                             rerank(last.query, last.value, last.top_k, rk.model))
    /\ UNCHANGED <<disk, store, pinned, response>>
    /\ UNCHANGED chunkVars
    /\ UNCHANGED concVars

CandidateInit ==
    /\ disk \in CandidateDisks
    /\ store = _ensure_ordered_chunks(NewStore, disk).store
    /\ reranker \in {LoadedReranker, FailedReranker}
    /\ \E query \in Queries, hits \in HitLists, top_k \in 1..(MaxTopK + 1) :
          last = FnCall("none", "pending", query, top_k, hits, <<>>, <<>>, <<>>)
    /\ pinned = None
    /\ response = None
    /\ ChunkIdle
    /\ ConcIdle

CandidateNext == CallMakeCandidates \/ CallRerank

CandidateSpec == CandidateInit /\ [][CandidateNext]_vars

(***************************************************************************)
(* api/server.py: search_endpoint                                          *)
(***************************************************************************)
MAX_TOP_K == 10

\* isinstance(exc, cls) for the exceptions retrieval raises:
\* json.JSONDecodeError is a subclass of ValueError.
IsInstance(exc, cls) ==
    exc = cls \/ (exc = "JSONDecodeError" /\ cls = "ValueError")

\* str(exc)
Message(exc) ==
    IF exc = "ValueError" THEN "top_k must be positive."
    ELSE IF exc = "FileNotFoundError"
    THEN "Retrieval artifacts missing. Run ingestion, chunking, and index build first."
    ELSE IF exc = "TypeError" THEN "Expected IndexFlatIP for Symphonic Prompting retrieval."
    ELSE IF exc = "KeyError" THEN "Chunk id sym-000001 missing from chunk metadata."
    ELSE IF exc = "JSONDecodeError" THEN "Expecting ',' delimiter: line 1 column 14 (char 13)"
    ELSE "model load failed"

\* The payloads FastAPI hands to the endpoint: those SearchRequest accepts
\* (a stripped non-blank query, 1 <= top_k <= MAX_TOP_K).
SearchRequests ==
    [query : Queries, top_k : 1..Min(MaxTopK, MAX_TOP_K), rerank : BOOLEAN]

\* The try/except of search_endpoint: the response for an outcome of retrieve.
HttpResponse(r) ==
    IF r.kind = "return" THEN [status |-> 200, detail |-> ""]
    ELSE IF IsInstance(r.exc, "FileNotFoundError")
    THEN [status |-> 503, detail |-> Message(r.exc)]
    ELSE IF IsInstance(r.exc, "ValueError")
    THEN [status |-> 400, detail |-> Message(r.exc)]
    ELSE [status |-> 500, detail |-> "Retrieval failed."]

\* POST /api/search: retrieve(query, top_k, rerank), which is search on the
\* module's store and reranker, and the mapping of its outcome.
search_endpoint(payload) ==
    /\ \E embed_ok \in ConstructionOutcomes(store.model = None),
          rerank_ok \in ConstructionOutcomes(payload.rerank /\ reranker = NewReranker) :
         LET r == SearchResult(payload.query, payload.top_k, payload.rerank,
                               disk, store, reranker, embed_ok, rerank_ok)
         IN  /\ store' = r.store
             /\ reranker' = r.reranker
             /\ last' = Call(payload.query, payload.top_k, payload.rerank, r, store, reranker)
             /\ response' = Some(HttpResponse(r))
    /\ UNCHANGED <<disk, pinned>>
    /\ UNCHANGED chunkVars
    /\ UNCHANGED concVars

\* The queries of direct calls of search (the command line passes its
\* argument unchanged): a word, the empty string and a space.
ApiQueries == {"q1", "", " "}

\* Artifact directories behind the endpoint: a consistent build, stale chunk
\* metadata, another index type, a missing file, an id file cut short.
ApiDisks ==
    { BuiltDisk(SampleTexts),
      [BuiltDisk(SampleTexts) EXCEPT !.chunks = SubSeq(@, 1, Len(@) - 1)],
      [BuiltDisk(SampleTexts) EXCEPT !.index.kind = "IndexIVFFlat"],
      [BuiltDisk(SampleTexts) EXCEPT !.faiss_exists = FALSE],
      [BuiltDisk(SampleTexts) EXCEPT !.ids_valid = FALSE] }

ApiInit ==
    /\ disk \in ApiDisks
    /\ store = NewStore
    /\ reranker = NewReranker
    /\ last = NoCall
    /\ pinned = NoCall
    /\ response = None
    /\ ChunkIdle
    /\ ConcIdle

ApiNext ==
    \/ \E payload \in SearchRequests : search_endpoint(payload)
    \/ \E query \in ApiQueries, top_k \in 0..MaxTopK, rr \in BOOLEAN :
          search(query, top_k, rr)

ApiSpec == ApiInit /\ [][ApiNext]_vars

(***************************************************************************)
(* Threads calling the accessors of the store and the methods of the       *)
(* reranker. A thread is at one position of one call; a step is what the   *)
(* thread does between two points where another thread may run.            *)
(***************************************************************************)
MaxThreads == 2
MaxLoads == 2

Threads == 1..MaxThreads

\* The properties index, ordered_chunks and model of ArtifactStore.
StoreOps == {"index", "ordered_chunks", "model"}

\* The public methods of OptionalReranker.
RerankerOps == {"rerank", "is_available"}

\* The candidates search hands to rerank for a query on the sample corpus.
CandidatesOf(query) ==
    _make_candidates(FaissSearch(BuiltDisk(SampleTexts).index, encode_query(query),
                                 Len(SampleTexts)),
                     Corpus(SampleTexts))

\* A thread outside any call.
NoThreadCall ==
    [pc |-> "idle", op |-> "none", query |-> "", top_k |-> 0, model |-> None,
     began_failed |-> FALSE, exc |-> OK]

\* Artifact directories with every file present: a consistent build, a build
\* with stale chunk metadata, and an index file of another index type.
ConcDisks ==
    { BuiltDisk(SampleTexts),
      [BuiltDisk(SampleTexts) EXCEPT !.chunks = SubSeq(@, 1, Len(@) - 1)],
      [BuiltDisk(SampleTexts) EXCEPT !.index.kind = "IndexIVFFlat"] }

\* The _ensure_ method an accessor runs while it holds the lock.
Ensure(op, st, dsk, embed_ok) ==
    IF op = "index" THEN _ensure_index(st, dsk)
    ELSE IF op = "ordered_chunks" THEN _ensure_ordered_chunks(st, dsk)
    ELSE _ensure_model(st, embed_ok)

\* How many times the method reads the chunk file into _chunk_lookup: once
\* whenever _ensure_ordered_chunks gets past its guard and _load_chunks past
\* its own.
ChunkLoads(op, st) ==
    IF op # "ordered_chunks" \/ st.ordered_chunks # None THEN 0
    ELSE IF st.chunk_lookup # None /\ st.ordered_chunks # None THEN 0
    ELSE 1

\* How many times the method reads the id file into _ids.
IdsLoads(op, st, after) ==
    IF op = "ordered_chunks" /\ st.ids = None /\ after.ids # None THEN 1 ELSE 0

\* How many times the method caches an index read from disk.
IndexLoads(op, st, after) ==
    IF op = "index" /\ st.index = None /\ after.index # None THEN 1 ELSE 0

\* How many times the method caches a constructed embedding model.
ModelLoads(op, st, after) ==
    IF op = "model" /\ st.model = None /\ after.model # None THEN 1 ELSE 0

\* Variant: the block under the lock constructs without checking again.
GetModelNoRecheck(rk, ok) ==
    [reranker |-> IF ok THEN [rk EXCEPT !.model = Some("CrossEncoder")]
                  ELSE [rk EXCEPT !.load_failure = Some("Exception"), !.model = None],
     constructed |-> TRUE]

\* The block of _get_model under the lock: the reranker after it, and whether
\* CrossEncoder(name) was called (it loads when ok, raises otherwise).
GetModelLocked(rk, ok) ==
    IF rk.model # None THEN [reranker |-> rk, constructed |-> FALSE]
    ELSE IF rk.load_failure # None THEN [reranker |-> rk, constructed |-> FALSE]
    ELSE [reranker |-> IF ok THEN [rk EXCEPT !.model = Some("CrossEncoder")]
                       ELSE [rk EXCEPT !.load_failure = Some("Exception"),
                                       !.model = None],
          constructed |-> TRUE]

\* A thread enters an accessor of the store and reaches "with self._lock".
\* MaxLoads bounds the reloads the model follows.
StoreCall(t, op) ==
    /\ threads[t].pc = "idle"
    /\ loads.chunks < MaxLoads
    /\ threads' = [threads EXCEPT ![t] = [NoThreadCall EXCEPT !.pc = "wait", !.op = op]]
    /\ UNCHANGED <<store_lock, reranker_lock, loads>>
    /\ UNCHANGED searchVars
    /\ UNCHANGED chunkVars

\* The thread acquires the store's lock.
StoreAcquire(t) ==
    /\ threads[t].pc = "wait"
    /\ threads[t].op \in StoreOps
    /\ store_lock = None
    /\ store_lock' = Some(t)
    /\ threads' = [threads EXCEPT ![t].pc = "locked"]
    /\ UNCHANGED <<reranker_lock, loads>>
    /\ UNCHANGED searchVars
    /\ UNCHANGED chunkVars

\* The thread runs the _ensure_ method of its accessor.
StoreEnsure(t) ==
    /\ threads[t].pc = "locked"
    /\ threads[t].op \in StoreOps
    /\ \E embed_ok \in ConstructionOutcomes(threads[t].op = "model" /\ store.model = None) :
         LET op == threads[t].op
             r == Ensure(op, store, disk, embed_ok)
         IN  /\ store' = r.store
             /\ loads' = [loads EXCEPT
                            !.chunks = @ + ChunkLoads(op, store),
                            !.ids = @ + IdsLoads(op, store, r.store),
                            !.index = @ + IndexLoads(op, store, r.store),
                            !.model = @ + ModelLoads(op, store, r.store)]
             /\ threads' = [threads EXCEPT ![t].pc = "release", ![t].exc = r.exc]
    /\ UNCHANGED <<store_lock, reranker_lock>>
    /\ UNCHANGED <<disk, reranker, last, pinned, response>>
    /\ UNCHANGED chunkVars

\* The thread leaves the with block, returning the resource or raising.
StoreRelease(t) ==
    /\ threads[t].pc = "release"
    /\ threads[t].op \in StoreOps
    /\ store_lock' = None
    /\ threads' = [threads EXCEPT ![t] = NoThreadCall]
    /\ UNCHANGED <<reranker_lock, loads>>
    /\ UNCHANGED searchVars
    /\ UNCHANGED chunkVars

\* A thread calls rerank(query, candidates, top_k) or is_available(), which
\* call _get_model.
RerankerCall(t, op, query, top_k) ==
    /\ threads[t].pc = "idle"
    /\ threads' = [threads EXCEPT ![t] =
                      [NoThreadCall EXCEPT !.pc = "check_model", !.op = op,
                                           !.query = query, !.top_k = top_k,
                                           !.began_failed = (reranker.load_failure # None)]]
    /\ UNCHANGED <<store_lock, reranker_lock, loads>>
    /\ UNCHANGED searchVars
    /\ UNCHANGED chunkVars

\* if self._model is not None: return self._model
GetCheckModel(t) ==
    /\ threads[t].pc = "check_model"
    /\ threads' = IF reranker.model # None
                  THEN [threads EXCEPT ![t].pc = "return", ![t].model = reranker.model]
                  ELSE [threads EXCEPT ![t].pc = "check_failure"]
    /\ UNCHANGED <<store_lock, reranker_lock, loads>>
    /\ UNCHANGED searchVars
    /\ UNCHANGED chunkVars

\* if self._load_failure is not None: return None
GetCheckFailure(t) ==
    /\ threads[t].pc = "check_failure"
    /\ threads' = IF reranker.load_failure # None
                  THEN [threads EXCEPT ![t].pc = "return", ![t].model = None]
                  ELSE [threads EXCEPT ![t].pc = "wait"]
    /\ UNCHANGED <<store_lock, reranker_lock, loads>>
    /\ UNCHANGED searchVars
    /\ UNCHANGED chunkVars

\* The thread acquires the reranker's lock.
GetAcquire(t) ==
    /\ threads[t].pc = "wait"
    /\ threads[t].op \in RerankerOps
    /\ reranker_lock = None
    /\ reranker_lock' = Some(t)
    /\ threads' = [threads EXCEPT ![t].pc = "locked"]
    /\ UNCHANGED <<store_lock, loads>>
    /\ UNCHANGED searchVars
    /\ UNCHANGED chunkVars

\* The thread runs the block under the lock.
GetLocked(t) ==
    /\ threads[t].pc = "locked"
    /\ threads[t].op \in RerankerOps
    /\ \E ok \in ConstructionOutcomes(reranker = NewReranker) :
         LET r == GetModelLocked(reranker, ok)
         IN  /\ reranker' = r.reranker
             /\ loads' = [loads EXCEPT !.reranker = @ + (IF r.constructed THEN 1 ELSE 0)]
             /\ threads' = [threads EXCEPT ![t].pc = "release",
                                           ![t].model = r.reranker.model]
    /\ UNCHANGED <<store_lock, reranker_lock>>
    /\ UNCHANGED <<disk, store, last, pinned, response>>
    /\ UNCHANGED chunkVars

\* The thread leaves the with block; _get_model returns.
GetRelease(t) ==
    /\ threads[t].pc = "release"
    /\ threads[t].op \in RerankerOps
    /\ reranker_lock' = None
    /\ threads' = [threads EXCEPT ![t].pc = "return"]
    /\ UNCHANGED <<store_lock, loads>>
    /\ UNCHANGED searchVars
    /\ UNCHANGED chunkVars

\* What the call of a thread at "return" returns, given the model _get_model
\* returned: rerank's list, or for is_available whether there is a model.
ReturnValue(t) ==
    IF threads[t].op = "rerank"
    THEN rerank(threads[t].query, CandidatesOf(threads[t].query),
                threads[t].top_k, threads[t].model)
    ELSE <<threads[t].model # None>>

\* rerank or is_available returns.
RerankerReturn(t) ==
    /\ threads[t].pc = "return"
    /\ threads' = [threads EXCEPT ![t] = NoThreadCall]
    /\ UNCHANGED <<store_lock, reranker_lock, loads>>
    /\ UNCHANGED searchVars
    /\ UNCHANGED chunkVars

\* Nothing loaded, no thread in a call.
ConcInit ==
    /\ store = NewStore
    /\ reranker = NewReranker
    /\ last = NoCall
    /\ pinned = NoCall
    /\ response = None
    /\ threads = [t \in Threads |-> NoThreadCall]
    /\ store_lock = None
    /\ reranker_lock = None
    /\ loads = [chunks |-> 0, ids |-> 0, index |-> 0, model |-> 0, reranker |-> 0]
    /\ ChunkIdle

\* Threads calling the accessors of ARTIFACT_STORE.
StoreInit == disk \in ConcDisks /\ ConcInit

StoreNext ==
    \E t \in Threads :
        \/ \E op \in StoreOps : StoreCall(t, op)
        \/ StoreAcquire(t)
        \/ StoreEnsure(t)
        \/ StoreRelease(t)

StoreSpec == StoreInit /\ [][StoreNext]_vars

\* Threads calling the methods of RERANKER.
RerankerInit == disk = BuiltDisk(SampleTexts) /\ ConcInit

RerankerNext ==
    \E t \in Threads :
        \/ \E query \in Queries, top_k \in 1..MaxTopK :
              RerankerCall(t, "rerank", query, top_k)
        \/ RerankerCall(t, "is_available", "", 0)
        \/ GetCheckModel(t)
        \/ GetCheckFailure(t)
        \/ GetAcquire(t)
        \/ GetLocked(t)
        \/ GetRelease(t)
        \/ RerankerReturn(t)

RerankerSpec == RerankerInit /\ [][RerankerNext]_vars

(***************************************************************************)
(* Properties of the chunker (checked under ChunkSpec).                    *)
(***************************************************************************)
SpanTexts(w) == [k \in 1..(w.end - w.start) |-> paragraphs[w.start + k].text]

RECURSIVE SumLen(_)
SumLen(texts) == IF texts = <<>> THEN 0 ELSE Len(Head(texts)) + SumLen(Tail(texts))

AllTexts == [k \in 1..Len(paragraphs) |-> paragraphs[k].text]

BuildDone == cpc = "done"

\* C6: every emitted chunk's text is the texts of the paragraphs it spans
\* joined by the two-character separator, and end_char - start_char is the
\* length of that joined text.
C6_ChunkTextAndExtent ==
    \A i \in 1..Len(chunks) :
        /\ chunks[i].text = Join(SpanTexts(windows[i]))
        /\ chunks[i].end_char - chunks[i].start_char = Len(Join(SpanTexts(windows[i])))

\* C7: each chunk's start paragraph index is strictly greater than the
\* previous chunk's, the running start index stays ahead of the last chunk's
\* start while the loop runs, and at most as many chunks are emitted as there
\* are paragraphs.
C7_ForwardProgress ==
    /\ \A i \in 2..Len(windows) : windows[i].start > windows[i - 1].start
    /\ Len(chunks) <= Len(paragraphs)
    /\ (cpc = "yield" /\ windows # <<>>) =>
           /\ start_idx > windows[Len(windows)].start
           /\ start_idx < Len(paragraphs)

\* A finished build of at least three chunks in which one chunk starts inside
\* the previous window (overlap) and another starts exactly at the previous
\* window's end although the overlap is positive (the forced fallback).
C7_Witness ==
    /\ BuildDone
    /\ Len(chunks) >= 3
    /\ \E i \in 2..Len(windows) : windows[i].start < windows[i - 1].end
    /\ \E i \in 2..Len(windows) :
           /\ windows[i].start = windows[i - 1].end
           /\ OverlapChars(windows[i - 1].char_count, overlap_ratio) > 0

\* C8: zero paragraphs give an empty chunk list; exactly one paragraph gives
\* exactly one chunk whose text is that paragraph; no chunk spans zero
\* paragraphs.
C8_EmptyAndSingle ==
    /\ (BuildDone /\ Len(paragraphs) = 0) => chunks = <<>>
    /\ (BuildDone /\ Len(paragraphs) = 1) =>
           /\ Len(chunks) = 1
           /\ chunks[1].text = paragraphs[1].text
    /\ \A i \in 1..Len(windows) :
           /\ windows[i].size >= 1
           /\ windows[i].end - windows[i].start = windows[i].size

\* A finished build over one paragraph longer than target_chars.
C8_Witness ==
    /\ BuildDone
    /\ Len(paragraphs) = 1
    /\ Len(paragraphs[1].text) > target_chars + 1
    /\ Len(chunks) = 1

\* C9: the n-th chunk emitted (from 0) carries the prefix and n zero-padded to
\* six digits, so the first id is sym-000000, the numbers rise by one per
\* chunk and no two chunks share an id.
C9_ChunkIds ==
    /\ \A i \in 1..Len(chunks) :
           /\ chunks[i].id.prefix = "sym-"
           /\ Len(chunks[i].id.digits) = 6
           /\ \A d \in 1..6 : chunks[i].id.digits[d] \in 0..9
           /\ ParseDigits(chunks[i].id.digits) = i - 1
    /\ \A i, j \in 1..Len(chunks) : chunks[i].id = chunks[j].id => i = j

\* A finished build that emitted at least four chunks.
C9_Witness ==
    /\ BuildDone
    /\ Len(chunks) >= 4
    /\ chunks[4].id.digits = <<0, 0, 0, 0, 0, 3>>

\* C10: when all paragraphs joined by the separator are shorter than
\* target_chars, exactly one chunk is emitted; it spans every paragraph, with
\* page_start the first paragraph's page and page_end the last one's.
C10_SingleChunkBelowTarget ==
    (BuildDone /\ paragraphs # <<>> /\ SumLen(AllTexts) + 2 * (Len(paragraphs) - 1) < target_chars)
        => /\ Len(chunks) = 1
           /\ windows[1].start = 0
           /\ windows[1].end = Len(paragraphs)
           /\ chunks[1].text = Join(AllTexts)
           /\ chunks[1].page_start = paragraphs[1].page
           /\ chunks[1].page_end = paragraphs[Len(paragraphs)].page

\* Three single-paragraph pages numbered 1..3 chunked with a larger target.
C10_Witness ==
    /\ BuildDone
    /\ Len(pages) = 3
    /\ \A i \in 1..3 : pages[i].text = <<"a">>
    /\ SumLen(AllTexts) + 2 * (Len(paragraphs) - 1) < target_chars
    /\ Len(chunks) = 1
    /\ chunks[1].page_start = 1
    /\ chunks[1].page_end = 3

(***************************************************************************)
(* Properties of search (checked under Spec).                              *)
(***************************************************************************)
Returned(c) == c.kind = "return"

IndexSize == Len(disk.index.rows)

Fingerprint(list) == [i \in 1..Len(list) |-> <<list[i].id, list[i].score>>]

SameCall(c, d) == c.query = d.query /\ c.top_k = d.top_k /\ c.rerank = d.rerank

\* What search(query, top_k, rerank=False) returns in the current state.
WithoutRerank(query, top_k) ==
    SearchResult(query, top_k, FALSE, disk, store, reranker, TRUE, TRUE).value

\* What search(query, top_k, rerank=True) returns with the reranker loaded.
WithLoadedReranker(query, top_k) ==
    SearchResult(query, top_k, TRUE, disk, store,
                 [model |-> Some("CrossEncoder"), load_failure |-> None], TRUE, TRUE).value

\* C1: a returned list is no longer than top_k, and on a non-empty index its
\* length is min(top_k, number of indexed chunks).
C1_ResultLength ==
    Returned(last) =>
        /\ last.top_k > 0
        /\ Len(last.value) <= last.top_k
        /\ IndexSize > 0 => Len(last.value) = Min(last.top_k, IndexSize)

\* A top_k = 1 call with the default rerank on a three-chunk index returned
\* exactly one hit.
C1_Witness ==
    /\ Returned(last)
    /\ last.top_k = 1
    /\ last.rerank
    /\ IndexSize = 3
    /\ Len(last.value) = 1

\* C2: a returned list holds no id twice and its scores do not increase from
\* first to last.
C2_UniqueAndSorted ==
    Returned(last) =>
        /\ \A i, j \in 1..Len(last.value) : last.value[i].id = last.value[j].id => i = j
        /\ \A i \in 2..Len(last.value) : last.value[i - 1].score >= last.value[i].score

\* A reranked call with the reranker loaded returned at least two hits in an
\* order other than the index order.
C2_Witness ==
    /\ Returned(last)
    /\ last.rerank
    /\ reranker.model # None
    /\ Len(last.value) >= 2
    /\ [i \in 1..Len(last.value) |-> last.value[i].id]
         # [i \in 1..Len(last.value) |-> WithoutRerank(last.query, last.top_k)[i].id]

\* C3: two calls with the same query, top_k and rerank flag that both return
\* give the same sequence of (id, score) pairs.
C3_Determinism ==
    (Returned(pinned) /\ Returned(last) /\ SameCall(pinned, last))
        => Fingerprint(pinned.value) = Fingerprint(last.value)

\* Two equal reranked calls, the first of which did the lazy loads, returned
\* at least two hits each.
C3_Witness ==
    /\ Returned(pinned)
    /\ Returned(last)
    /\ SameCall(pinned, last)
    /\ pinned.rerank
    /\ pinned.loaded
    /\ ~last.loaded
    /\ Len(last.value) >= 2

\* C4: top_k <= 0 raises ValueError whatever the store state; top_k > 0 with
\* an artifact file missing raises FileNotFoundError; neither returns a list.
C4_Rejections ==
    last.kind # "none" =>
        /\ last.top_k <= 0 => (last.kind = "raise" /\ last.exc = "ValueError")
        /\ (last.top_k > 0
            /\ ~(disk.chunks_exists /\ disk.ids_exists /\ disk.faiss_exists))
               => (last.kind = "raise" /\ last.exc = "FileNotFoundError")

\* A call with a non-positive top_k on a directory with a missing file.
C4_Witness ==
    /\ last.kind = "raise"
    /\ last.top_k <= 0
    /\ ~disk.faiss_exists
    /\ last.exc = "ValueError"

\* C5: with the reranker's load failed, a rerank=True call returns what the
\* rerank=False call returns: the index-ordered candidates cut to top_k.
C5_RerankerUnavailable ==
    (Returned(last) /\ last.rerank /\ reranker.load_failure # None)
        => /\ last.value = WithoutRerank(last.query, last.top_k)
           /\ Len(last.value) = Min(last.top_k, IndexSize)

\* A rerank=True call under a failed load that cut three candidates to two,
\* which a loaded reranker would have ordered otherwise.
C5_Witness ==
    /\ Returned(last)
    /\ last.rerank
    /\ reranker.load_failure # None
    /\ IndexSize = 3
    /\ Len(last.value) = 2
    /\ last.value # WithLoadedReranker(last.query, last.top_k)

(***************************************************************************)
(* Properties of the threads (checked under StoreSpec and RerankerSpec).   *)
(***************************************************************************)
\* The threads inside the with block of a store accessor.
HoldsStoreLock(t) == threads[t].op \in StoreOps /\ threads[t].pc \in {"locked", "release"}

\* The load state of the reranker.
LoadState(rk) ==
    IF rk.model # None THEN "loaded"
    ELSE IF rk.load_failure # None THEN "failed"
    ELSE "unloaded"

\* C11: whatever the interleaving of the threads calling index,
\* ordered_chunks and model, at most one thread is inside an accessor's
\* locked block, and each of the chunk metadata, the id list, the vector index
\* and the embedding model is loaded at most once, also after another
\* resource failed to load.
C11_LoadedAtMostOnce ==
    /\ \A t, u \in Threads : (HoldsStoreLock(t) /\ HoldsStoreLock(u)) => t = u
    /\ loads.chunks <= 1
    /\ loads.ids <= 1
    /\ loads.index <= 1
    /\ loads.model <= 1

\* What holds of the reranker in every state: the scorer's construction was
\* attempted at most once and exactly when the load state left "unloaded", a
\* cached failure leaves no model, and a rerank call begun after the failure
\* returns its candidates cut to top_k.
RerankerLoadedOnce ==
    /\ loads.reranker <= 1
    /\ (loads.reranker = 0) <=> (LoadState(reranker) = "unloaded")
    /\ reranker.load_failure # None => reranker.model = None
    /\ \A t \in Threads :
           (threads[t].pc = "return" /\ threads[t].op = "rerank" /\ threads[t].began_failed)
               => ReturnValue(t) = Take(CandidatesOf(threads[t].query), threads[t].top_k)

\* C12: under any interleaving of threads calling rerank and is_available the
\* construction of the scorer is attempted at most once, after a failure
\* every later rerank call returns its candidates cut to top_k, and the load
\* state changes only from "unloaded", so at most once.
C12_AttemptedOnce ==
    /\ []RerankerLoadedOnce
    /\ [][LoadState(reranker)' # LoadState(reranker) => LoadState(reranker) = "unloaded"]_vars

\* The load failed once; one thread, which began rerank with top_k = 1 after
\* the failure, is about to return, while another, which passed both checks
\* before the failure, now holds the lock.
C12_Witness ==
    /\ LoadState(reranker) = "failed"
    /\ loads.reranker = 1
    /\ \E t, u \in Threads :
           /\ threads[t].pc = "return"
           /\ threads[t].op = "rerank"
           /\ threads[t].began_failed
           /\ threads[t].top_k = 1
           /\ Len(ReturnValue(t)) = 1
           /\ threads[u].pc = "locked"
           /\ ~threads[u].began_failed

(***************************************************************************)
(* Properties of the endpoint and of direct calls (checked under ApiSpec). *)
(***************************************************************************)
ArtifactsPresent == disk.chunks_exists /\ disk.ids_exists /\ disk.faiss_exists

\* C13: the response to a failed retrieval follows the kind of the failure:
\* 503 when an artifact file is missing, 400 for a non-positive top_k, and
\* for every other failure 500 with the detail 'Retrieval failed.'.
C13_FailureMapping ==
    (response # None /\ last.kind = "raise") =>
        /\ last.top_k <= 0 => Get(response).status = 400
        /\ (last.top_k > 0 /\ ~ArtifactsPresent) => Get(response).status = 503
        /\ (last.top_k > 0 /\ ArtifactsPresent) =>
               /\ Get(response).status = 500
               /\ Get(response).detail = "Retrieval failed."

IsBlank(query) == query \in {"", " "}

\* C16: a call of search with a blank query, like a call with a non-positive
\* top_k, raises ValueError and leaves every cached field of the store and
\* of the reranker as it was.
C16_ValidationBeforeIO ==
    (last.kind # "none" /\ (IsBlank(last.query) \/ last.top_k <= 0)) =>
        /\ last.kind = "raise"
        /\ last.exc = "ValueError"
        /\ ~last.loaded

(***************************************************************************)
(* Properties of the paragraph extractor (checked under ChunkSpec).        *)
(***************************************************************************)
\* C14: every paragraph has a non-empty text and end - start equal to its
\* length; starts and ends do not decrease along the sequence, and each
\* paragraph starts at or after the end of the one before it.
C14_ParagraphOffsets ==
    /\ \A k \in 1..Len(paragraphs) :
           /\ paragraphs[k].text # <<>>
           /\ paragraphs[k].end - paragraphs[k].start = Len(paragraphs[k].text)
    /\ \A k \in 2..Len(paragraphs) :
           /\ paragraphs[k].start >= paragraphs[k - 1].start
           /\ paragraphs[k].end >= paragraphs[k - 1].end
           /\ paragraphs[k].start >= paragraphs[k - 1].end

\* Paragraphs extracted from three pages, the middle one blank and the last
\* holding two paragraphs: one paragraph starts 4 after the end of the one
\* before it, another 2 after.
C14_Witness ==
    /\ cpc # "load"
    /\ Len(pages) = 3
    /\ Strip(pages[2].text) = <<>>
    /\ Len(paragraphs) >= 3
    /\ \E k \in 2..Len(paragraphs) : paragraphs[k].start = paragraphs[k - 1].end + 4
    /\ \E k \in 2..Len(paragraphs) : paragraphs[k].start = paragraphs[k - 1].end + 2

(***************************************************************************)
(* Properties of rejected and failing searches (checked under Spec).       *)
(***************************************************************************)
\* C15: a call rejected for top_k <= 0 or for a missing artifact file raises
\* ValueError in the first case (also when a file is missing) and
\* FileNotFoundError in the second, and leaves every cached field of the
\* store and the reranker's load state as they were; while a file is
\* missing no search ever loads anything into the store.
C15_RejectionLoadsNothing ==
    /\ (last.kind # "none" /\ (last.top_k <= 0 \/ ~ArtifactsPresent)) =>
           /\ last.kind = "raise"
           /\ last.exc = (IF last.top_k <= 0 THEN "ValueError" ELSE "FileNotFoundError")
           /\ ~last.loaded
    /\ ~ArtifactsPresent => store = NewStore

\* A call with top_k <= 0 was rejected on a store and a reranker that
\* earlier calls had loaded in full, and they still are.
C15_Witness ==
    /\ last.kind = "raise"
    /\ last.top_k <= 0
    /\ last.exc = "ValueError"
    /\ store.model # None
    /\ store.index # None
    /\ store.ordered_chunks # None
    /\ reranker.model # None

\* Some id of the id file has no record in the chunk file.
StaleIds ==
    \E i \in 1..Len(disk.ids) :
        \A j \in 1..Len(disk.chunks) : disk.chunks[j].id # disk.ids[i]

FullRanking(query) == FaissSearch(disk.index, encode_query(query), IndexSize)

\* The candidates for the n nearest neighbours of the query.
NearestCandidates(query, n) == _make_candidates(Take(FullRanking(query), n), disk.chunks)

\* What a call returns if exactly n nearest neighbours are its candidates:
\* reranked by the reranker as the call left it, or cut to top_k.
ResultOver(c, n) ==
    Cleaned(AssignRanks(
        IF c.rerank THEN rerank(c.query, NearestCandidates(c.query, n), c.top_k, reranker.model)
        ELSE Take(NearestCandidates(c.query, n), c.top_k)))

\* C18: what a call returns is computed from exactly
\* min(max(top_k, 50), index size) nearest neighbours, so the reranker
\* chooses among up to 50 candidates when top_k is smaller; on an empty index
\* the call returns the empty list, the ordered chunks stay unloaded (no
\* candidates were built) and the reranker stays untouched.
C18_CandidateCount ==
    Returned(last) =>
        /\ last.value = ResultOver(last, Min(Max(last.top_k, 50), IndexSize))
        /\ IndexSize = 0 =>
               /\ last.value = <<>>
               /\ store.ordered_chunks = None
               /\ reranker = NewReranker

\* A reranked top_k = 1 call on an index of 51 rows returned the 50th chunk,
\* which is the neighbour the index ranks 50th (49 chunks with the other text
\* score higher there); the 51st chunk has the same text.
C18_Witness ==
    /\ Returned(last)
    /\ last.rerank
    /\ last.top_k = 1
    /\ reranker.model # None
    /\ IndexSize = DEFAULT_CANDIDATES + 1
    /\ Len(last.value) = 1
    /\ last.value[1].id = disk.ids[50]
    /\ disk.chunks[51].text = disk.chunks[50].text
    /\ disk.chunks[49].text # disk.chunks[50].text
    /\ last.value[1].score > CrossScore(last.query, disk.chunks[1].text)

(***************************************************************************)
(* Properties of the window's stop rule (checked under ChunkSpec).         *)
(***************************************************************************)
\* The accumulated size of paragraphs from..to-1 (0-based): the lengths of
\* their texts plus 2 for each separator between them.
SpanSize(from, to) ==
    SumLen([k \in 1..(to - from) |-> paragraphs[from + k].text]) + 2 * (to - from - 1)

\* C19: a window that starts at paragraph i ends before paragraph j
\* (i < j < total) exactly when adding paragraph j, at the cost of its length
\* plus 2, would exceed target_chars and the size of paragraphs i..j-1 is
\* already at least min_chars; a paragraph inside the window never met that
\* condition.
C19_StopRule ==
    \A k \in 1..Len(windows) :
        \A j \in (windows[k].start + 1)..Min(windows[k].end, Len(paragraphs) - 1) :
            (windows[k].end = j) <=>
                /\ SpanSize(windows[k].start, j) + Len(paragraphs[j + 1].text) + 2 > target_chars
                /\ SpanSize(windows[k].start, j) >= min_chars

\* C20: every emitted chunk whose window ends before the last paragraph has
\* an accumulated size of at least min_chars.
C20_NeverDegenerate ==
    \A k \in 1..Len(windows) :
        windows[k].end < Len(paragraphs) =>
            SpanSize(windows[k].start, windows[k].end) >= min_chars

(***************************************************************************)
(* Properties of the overlap advance (checked under ChunkSpec).            *)
(***************************************************************************)
\* The start index the loop took after the k-th window.
NextStartOf(k) == IF k < Len(windows) THEN windows[k + 1].start ELSE start_idx

\* floor(char_count * overlap_ratio) of the k-th window.
FloorOverlap(k) == (windows[k].char_count * overlap_ratio[1]) \div overlap_ratio[2]

\* The end offset of the last paragraph of the k-th window less the overlap.
OverlapLimit(k) == paragraphs[windows[k].end].end - FloorOverlap(k)

\* The paragraphs (0-based) of the k-th window that end after the limit.
PastLimit(k) ==
    { j \in windows[k].start..(windows[k].end - 1) : paragraphs[j + 1].end > OverlapLimit(k) }

SmallestOf(S) == CHOOSE j \in S : \A i \in S : j <= i

\* C21: after a window that ends before the last paragraph, with a positive
\* overlap the next start is the first paragraph of the window that ends
\* after overlap_limit, or the window's end when that is the window's first
\* paragraph; with a zero overlap it is the window's end; in every case it
\* lies after the window's start and not after its end.
C21_OverlapAdvance ==
    \A k \in 1..Len(windows) :
        windows[k].end < Len(paragraphs) =>
            /\ FloorOverlap(k) > 0 =>
                   /\ PastLimit(k) # {}
                   /\ NextStartOf(k) = IF SmallestOf(PastLimit(k)) > windows[k].start
                                        THEN SmallestOf(PastLimit(k))
                                        ELSE windows[k].end
            /\ FloorOverlap(k) = 0 => NextStartOf(k) = windows[k].end
            /\ NextStartOf(k) > windows[k].start
            /\ NextStartOf(k) <= windows[k].end

\* A window after which the next chunk starts strictly inside it, at the
\* first paragraph that ends after the limit, and a window after which the
\* overlap reaches back to its first paragraph so the next chunk starts at
\* its end.
C21_Witness ==
    /\ \E k \in 1..(Len(windows) - 1) :
           /\ FloorOverlap(k) > 0
           /\ windows[k + 1].start > windows[k].start
           /\ windows[k + 1].start < windows[k].end
           /\ windows[k + 1].start = SmallestOf(PastLimit(k))
    /\ \E k \in 1..(Len(windows) - 1) :
           /\ FloorOverlap(k) > 0
           /\ SmallestOf(PastLimit(k)) = windows[k].start
           /\ windows[k + 1].start = windows[k].end

(***************************************************************************)
(* Properties of the paragraph offsets across pages (under ChunkSpec).     *)
(***************************************************************************)
\* The position of the k-th paragraph in the document formed by joining all
\* paragraphs with the two-character separator.
JoinedPosition(k) ==
    IF k = 1 THEN 0 ELSE Len(Join(SubSeq(AllTexts, 1, k - 1))) + 2

\* C22: each paragraph's start is its position in the joined document: the
\* first paragraph starts at 0 and each next one starts exactly 2 after the
\* end of the one before it, whatever blank pages the records contain.
C22_JoinedOffsets ==
    \A k \in 1..Len(paragraphs) :
        /\ paragraphs[k].start = JoinedPosition(k)
        /\ k = 1 => paragraphs[k].start = 0
        /\ k > 1 => paragraphs[k].start = paragraphs[k - 1].end + 2

(***************************************************************************)
(* Properties of _make_candidates and rerank (checked under CandidateSpec). *)
(***************************************************************************)
OrderedChunks == Get(store.ordered_chunks)

InRange(idx) == idx >= 0 /\ idx < Len(OrderedChunks)

\* The positions (from 1) of the hits whose index position is in range.
KeptHits(hits) == { i \in 1..Len(hits) : InRange(hits[i].idx) }

\* The i-th smallest member of a set of numbers.
NthOf(S, i) == CHOOSE x \in S : Cardinality({ y \in S : y < x }) = i - 1

\* C23: _make_candidates returns one candidate per hit whose position is in
\* [0, len(ordered_chunks)), in the order of the hits, each with the id and
\* the fields of the chunk at that position and the hit's score; hits with
\* any other position (the sentinel -1 included) are skipped, and the call
\* returns.
C23_SkipsOutOfRange ==
    last.op = "_make_candidates" =>
        /\ last.kind = "return"
        /\ Len(last.value) = Cardinality(KeptHits(last.hits))
        /\ \A i \in 1..Len(last.value) :
               LET hit == last.hits[NthOf(KeptHits(last.hits), i)]
                   chunk == OrderedChunks[hit.idx + 1]
               IN  /\ last.value[i].id = chunk.id
                   /\ last.value[i].text = chunk.text
                   /\ last.value[i].page_start = chunk.page_start
                   /\ last.value[i].page_end = chunk.page_end
                   /\ last.value[i].start_char = chunk.start_char
                   /\ last.value[i].end_char = chunk.end_char
                   /\ last.value[i].score = hit.score

\* A call on three hits, the first with the sentinel -1, the second in
\* range and the third one past the last chunk, returned the one candidate.
C23_Witness ==
    /\ last.op = "_make_candidates"
    /\ Len(last.hits) = 3
    /\ last.hits[1].idx = -1
    /\ InRange(last.hits[2].idx)
    /\ last.hits[3].idx = Len(OrderedChunks)
    /\ Len(last.value) = 1
    /\ last.value[1].id = OrderedChunks[last.hits[2].idx + 1].id

\* The candidate c with its score replaced by the reranker's.
Rescored(query, c) == [c EXCEPT !.score = CrossScore(query, c.text)]

\* C24: with the reranker loaded, rerank returns min(top_k, len(candidates))
\* entries; they are distinct input candidates with the reranker's score in
\* place of their own, in descending order of that score; no candidate left
\* out scores higher than a returned one; the input list is as it was.
C24_RerankTopK ==
    (last.op = "rerank" /\ reranker.model # None) =>
        /\ Len(last.value) = Min(last.top_k, Len(last.candidates))
        /\ \E f \in [1..Len(last.value) -> 1..Len(last.candidates)] :
               /\ \A i, j \in 1..Len(last.value) : f[i] = f[j] => i = j
               /\ \A i \in 1..Len(last.value) :
                      last.value[i] = Rescored(last.query, last.candidates[f[i]])
               /\ \A j \in 1..Len(last.candidates) :
                      (\A i \in 1..Len(last.value) : f[i] # j) =>
                          \A i \in 1..Len(last.value) :
                              CrossScore(last.query, last.candidates[j].text)
                                  <= last.value[i].score
        /\ \A i \in 1..(Len(last.value) - 1) :
               last.value[i].score >= last.value[i + 1].score
        /\ last.candidates_after = last.candidates

\* A call with top_k = 2 on three candidates returned the third candidate
\* first, with a score other than the one it came with, then the first, and
\* left out the second, whose reranker score is lower than the best.
C24_Witness ==
    /\ last.op = "rerank"
    /\ reranker.model # None
    /\ last.top_k = 2
    /\ Len(last.candidates) = 3
    /\ Len(last.value) = 2
    /\ last.value[1] = Rescored(last.query, last.candidates[3])
    /\ last.value[1].score # last.candidates[3].score
    /\ last.value[2] = Rescored(last.query, last.candidates[1])
    /\ CrossScore(last.query, last.candidates[2].text) < last.value[1].score
    /\ last.candidates_after = last.candidates

(***************************************************************************)
(* Properties of reads of loaded resources (checked under StoreSpec).      *)
(***************************************************************************)
\* The resource an accessor returns is cached in the store.
ResourceLoaded(op) ==
    IF op = "index" THEN store.index # None
    ELSE IF op = "ordered_chunks" THEN store.ordered_chunks # None
    ELSE IF op = "model" THEN store.model # None
    ELSE FALSE

\* The thread stands at "with self._lock" while another thread holds the
\* lock.
BlockedOnStoreLock(t) ==
    /\ threads[t].pc = "wait"
    /\ store_lock # None
    /\ store_lock # Some(t)

\* C25: a thread that reads a resource already loaded does not wait for the
\* store's lock: it is never blocked by another thread that holds the lock,
\* for example while that thread loads a different resource.
C25_LoadedReadNeverBlocked ==
    \A t \in Threads :
        ResourceLoaded(threads[t].op) => ~BlockedOnStoreLock(t)

(***************************************************************************)
(* Properties of the sequence of windows (checked under ChunkSpec).        *)
(***************************************************************************)
\* The paragraphs (0-based) that belong to some emitted chunk.
Covered == UNION { windows[k].start..(windows[k].end - 1) : k \in 1..Len(windows) }

\* C26: the first chunk starts at paragraph 0, each next chunk starts no
\* later than the previous window's end, the windows' ends never decrease,
\* and when the build of a non-empty paragraph sequence is done the last
\* chunk ends with the last paragraph and every paragraph is in a chunk.
C26_NoGaps ==
    /\ windows # <<>> => windows[1].start = 0
    /\ \A k \in 2..Len(windows) :
           /\ windows[k].start <= windows[k - 1].end
           /\ windows[k].end >= windows[k - 1].end
    /\ (BuildDone /\ paragraphs # <<>>) =>
           /\ windows # <<>>
           /\ windows[Len(windows)].end = Len(paragraphs)
           /\ Covered = 0..(Len(paragraphs) - 1)

\* A finished build of three chunks or more in which one chunk starts inside
\* the previous window and another starts at the previous window's end.
C26_Witness ==
    /\ BuildDone
    /\ Len(windows) >= 3
    /\ Len(paragraphs) >= 4
    /\ \E k \in 2..Len(windows) : windows[k].start < windows[k - 1].end
    /\ \E k \in 2..Len(windows) : windows[k].start = windows[k - 1].end
    /\ Covered = 0..(Len(paragraphs) - 1)

\* C27: every chunk after the first ends at a later paragraph than the chunk
\* before it, so its span is not contained in that chunk's span.
C27_NewContent ==
    \A k \in 2..Len(windows) :
        /\ windows[k].end > windows[k - 1].end
        /\ ~(windows[k].start >= windows[k - 1].start /\ windows[k].end <= windows[k - 1].end)

====
